---- MODULE Spec2Model ----
(***************************************************************************)
(* Model of src/main.py: the watch-list endpoints bulk_register,           *)
(* get_products, delete_product and check_prices over the products table,  *)
(* all sharing the module-level psycopg2 connection `conn`.                *)
(*                                                                         *)
(* The products table is a bag of rows: the table has no key besides the   *)
(* SERIAL id and the SELECTs carry no ORDER BY.  `rows` is what the shared *)
(* connection sees (its open transaction included), `committed` is what    *)
(* the last COMMIT left in the database.  A statement that fails on the    *)
(* server leaves the connection's transaction aborted: every later         *)
(* statement raises until the next commit, which then rolls back.          *)
(*                                                                         *)
(* Amounts and target prices are counted in half units so that             *)
(* int(amount) (line 393) is a real truncation.                            *)
(*                                                                         *)
(* A handler is a worker's program counter moving through its statements. *)
(* With one worker (Init) requests run one at a time; with two workers     *)
(* (InitRace) their statements interleave on the shared connection.        *)
(* Datastore faults are injected at the INSERT of bulk_register only.      *)
(* A statement (execute and fetch) is one step; the interleaved runs show   *)
(* what statement-level interleaving alone already produces.               *)
(***************************************************************************)
EXTENDS Integers, Sequences, FiniteSets, Bags, TLC

Quota == 10

MaxItems == 2
MaxAmount == 2

Users == {"u1", "u2"}
Asins == 1..(Quota + 1)
ActiveAsins == {Quota, Quota + 1}
Slots == {1, 2}

Amounts == 1..MaxAmount
Targets == {1, 2}
Titles == {"t1"}
Paths == {"dp", "gp/product", "other"}

MinActive == CHOOSE a \in ActiveAsins : \A b \in ActiveAsins : a <= b

(* Submitted items: a /dp/ URL of every active ASIN, a /gp/product/ URL *)
(* of the first one with another target, and a URL with no product path. *)
RegisterItem ==
    {[url |-> [path |-> "dp", token |-> a], target_price |-> 1] :
       a \in ActiveAsins} \cup
    {[url |-> [path |-> "gp/product", token |-> MinActive], target_price |-> 2],
     [url |-> [path |-> "other", token |-> MinActive], target_price |-> 1]}

NoAsin == 0

(* extract_asin: the token after /dp/ or /gp/product/, else None. *)
extract_asin(url) ==
    IF url.path \in {"dp", "gp/product"} THEN url.token ELSE NoAsin

(* item.detail_page_url: the gateway's canonical URL of an ASIN. *)
detail_page_url(asin) == [path |-> "dp", token |-> asin]

(* int(amount), in half units. *)
IntAmount(amount) == (amount \div 2) * 2

RECURSIVE AsinListFrom(_, _)
AsinListFrom(items, seen) ==
    IF items = <<>> THEN <<>>
    ELSE LET a == extract_asin(Head(items).url) IN
         IF a = NoAsin \/ a \in seen
         THEN AsinListFrom(Tail(items), seen)
         ELSE <<a>> \o AsinListFrom(Tail(items), seen \cup {a})

(* list(asin_map.keys()): keys in order of first occurrence. *)
AsinList(items) == AsinListFrom(items, {})

SeqRange(seq) == {seq[i] : i \in 1..Len(seq)}

(* asin_map[asin]: the last submitted item with that ASIN. *)
AsinMap(items) ==
    [a \in SeqRange(AsinList(items)) |->
        LET idx == {i \in 1..Len(items) : extract_asin(items[i].url) = a}
            last == CHOOSE i \in idx : \A j \in idx : j <= i
        IN items[last]]

(* Rows of one user / of one (user, asin) pair, as sub-bags of the table. *)
UserRows(b, user) ==
    [r \in {x \in DOMAIN b : x.user_id = user} |-> b[r]]

PairRows(b, user, asin) ==
    [r \in {x \in DOMAIN b : x.user_id = user /\ x.asin = asin} |-> b[r]]

(* SELECT COUNT( * ) FROM products WHERE user_id = %s *)
CountUser(b, user) == BagCardinality(UserRows(b, user))

(* SELECT COUNT( * ) ... WHERE user_id = %s AND asin = %s *)
CountPair(b, user, asin) == BagCardinality(PairRows(b, user, asin))

ExistsNever(b, user, asin) == FALSE

ExistsMoreThanOne(b, user, asin) == CountPair(b, user, asin) > 1

(* the exists test of bulk_register: COUNT > 0 *)
Exists(b, user, asin) == CountPair(b, user, asin) > 0

QuotaExceededNoCount(current_count, items) == Len(items) > Quota

QuotaExceededOffByOne(current_count, items) ==
    current_count + Len(items) > Quota + 1

QuotaExceededDedup(current_count, items) ==
    current_count + Len(AsinList(items)) > Quota

(* the quota test of bulk_register, on the raw length of req.items *)
QuotaExceeded(current_count, items) == current_count + Len(items) > Quota

(* INSERT INTO products ... *)
InsertRow(b, row) == b (+) SetToBag({row})

DeleteUserRows(b, user, asin) ==
    [r \in {x \in DOMAIN b : x.user_id /= user} |-> b[r]]

(* DELETE FROM products WHERE user_id = %s AND asin = %s *)
DeleteRows(b, user, asin) ==
    [r \in {x \in DOMAIN b : ~(x.user_id = user /\ x.asin = asin)} |-> b[r]]

NewRow(user, asin, entry, item) ==
    [user_id |-> user, asin |-> asin, title |-> entry.title,
     price |-> IntAmount(entry.offers[1]), url |-> detail_page_url(asin),
     target_price |-> item.target_price]

(* Gateway entries: a title and the listings' amounts (possibly none). *)
Entries == [title : Titles, offers : {<<>>} \cup {<<a>> : a \in Amounts}]

(* amazon.get_items: no "data" container, or data for some of the ASINs.  *)
(* The filler ASINs of a request share one outcome.                       *)
Absent == [title |-> "", offers |-> <<>>]

NoProducts == [has_data |-> FALSE, data |-> [a \in {} |-> Absent]]

GatewayResponses(asins) ==
    LET act == asins \cap ActiveAsins
        fil == asins \ ActiveAsins
        opts == Entries \cup {Absent}
    IN {NoProducts} \cup
       { [has_data |-> TRUE,
          data |-> [a \in {x \in act : fa[x] /= Absent} \cup
                          (IF ff = Absent THEN {} ELSE fil) |->
                      IF a \in act THEN fa[a] ELSE ff]] :
         fa \in [act -> opts],
         ff \in IF fil = {} THEN {Absent} ELSE opts }

VARIABLES rows, committed, aborted, workers, overlapped,
          pc, req, products, results, resp, pre

vars == <<rows, committed, aborted, workers, overlapped,
          pc, req, products, results, resp, pre>>

NoReq == [op |-> "none"]
NoResp == [kind |-> "none"]

FillerRow(a) ==
    [user_id |-> "u1", asin |-> a, title |-> "t1", price |-> 2,
     url |-> detail_page_url(a), target_price |-> 1]

Prefilled(n) == SetToBag({FillerRow(a) : a \in 1..n})

InitWith(ws) ==
    /\ rows = Prefilled(Quota - 1)
    /\ committed = Prefilled(Quota - 1)
    /\ aborted = FALSE
    /\ workers = ws
    /\ overlapped = FALSE
    /\ pc = [s \in Slots |-> "idle"]
    /\ req = [s \in Slots |-> NoReq]
    /\ products = [s \in Slots |-> NoProducts]
    /\ results = [s \in Slots |-> <<>>]
    /\ resp = [s \in Slots |-> NoResp]
    /\ pre = [s \in Slots |-> EmptyBag]

Init == InitWith({1})

InitRace == InitWith(Slots)

Busy(s) == pc[s] /= "idle"

Idle(s) == s \in workers /\ pc[s] = "idle"

(* A worker takes the next request. *)
Start(s, r) ==
    /\ Idle(s)
    /\ req' = [req EXCEPT ![s] = r]
    /\ pre' = [pre EXCEPT ![s] = rows]
    /\ overlapped' = (overlapped \/ \E t \in Slots \ {s} : Busy(t))
    /\ UNCHANGED workers

(* The handler returns (or raises) without touching the connection. *)
Finish(s, response, prods, res) ==
    /\ pc' = [pc EXCEPT ![s] = "done"]
    /\ resp' = [resp EXCEPT ![s] = response]
    /\ products' = [products EXCEPT ![s] = prods]
    /\ results' = [results EXCEPT ![s] = res]

Http500(exc) == [kind |-> "http500", error |-> exc]

(* bulk_register, lines 376-386: quota check, asin_map, gateway call. *)
BulkRegisterStart(s, user, items, gw) ==
    /\ Start(s, [op |-> "bulk_register", user_id |-> user, items |-> items])
    /\ UNCHANGED <<rows, committed, aborted>>
    /\ IF aborted
       THEN Finish(s, Http500("InFailedSqlTransaction"), NoProducts, <<>>)
       ELSE LET current_count == CountUser(rows, user) IN
            IF QuotaExceeded(current_count, items)
            THEN Finish(s, [kind |-> "quota_error", current |-> current_count],
                        NoProducts, <<>>)
            ELSE IF ~gw.has_data
            THEN Finish(s, Http500("KeyError"), gw, <<>>)
            ELSE IF DOMAIN gw.data = {}
            THEN Finish(s, [kind |-> "gateway_error"], gw, <<>>)
            ELSE /\ pc' = [pc EXCEPT ![s] = "br_loop"]
                 /\ products' = [products EXCEPT ![s] = gw]
                 /\ results' = [results EXCEPT ![s] = <<>>]
                 /\ resp' = [resp EXCEPT ![s] = NoResp]

ItemError(asin, exc) == [asin |-> asin, kind |-> "error", error |-> exc]

Append1(s, entry) == results' = [results EXCEPT ![s] = Append(@, entry)]

(* bulk_register, lines 389-400: one iteration up to the exists test. *)
BulkRegisterItem(s) ==
    /\ pc[s] = "br_loop"
    /\ Len(results[s]) < Len(AsinList(req[s].items))
    /\ LET asin == AsinList(req[s].items)[Len(results[s]) + 1]
           data == products[s].data
       IN IF asin \notin DOMAIN data
          THEN Append1(s, ItemError(asin, "KeyError")) /\ UNCHANGED pc
          ELSE IF data[asin].offers = <<>>
          THEN Append1(s, ItemError(asin, "IndexError")) /\ UNCHANGED pc
          ELSE IF aborted
          THEN Append1(s, ItemError(asin, "InFailedSqlTransaction"))
               /\ UNCHANGED pc
          ELSE IF Exists(rows, req[s].user_id, asin)
          THEN Append1(s, [asin |-> asin, kind |-> "skipped"])
               /\ UNCHANGED pc
          ELSE pc' = [pc EXCEPT ![s] = "br_insert"] /\ UNCHANGED results
    /\ UNCHANGED <<rows, committed, aborted, workers, overlapped,
                   req, products, resp, pre>>

(* bulk_register, lines 402-409: the INSERT and its outcome. *)
BulkRegisterInsert(s, outcome) ==
    /\ pc[s] = "br_insert"
    /\ pc' = [pc EXCEPT ![s] = "br_loop"]
    /\ LET asin == AsinList(req[s].items)[Len(results[s]) + 1]
           row == NewRow(req[s].user_id, asin, products[s].data[asin],
                         AsinMap(req[s].items)[asin])
       IN IF aborted
          THEN /\ Append1(s, ItemError(asin, "InFailedSqlTransaction"))
               /\ UNCHANGED <<rows, aborted>>
          ELSE IF outcome = "ok"
          THEN /\ rows' = InsertRow(rows, row)
               /\ Append1(s, [asin |-> asin, kind |-> "inserted",
                              title |-> row.title,
                              current_price |-> row.price])
               /\ UNCHANGED aborted
          ELSE IF outcome = "client_error"
          THEN /\ Append1(s, ItemError(asin, "ValueError"))
               /\ UNCHANGED <<rows, aborted>>
          ELSE /\ Append1(s, ItemError(asin, "DataError"))
               /\ aborted' = TRUE
               /\ UNCHANGED rows
    /\ UNCHANGED <<committed, workers, overlapped, req, products, resp, pre>>

(* conn.commit(): on an aborted transaction the server rolls back. *)
Commit ==
    /\ rows' = IF aborted THEN committed ELSE rows
    /\ committed' = IF aborted THEN committed ELSE rows
    /\ aborted' = FALSE

(* bulk_register, lines 411-412: commit and summary. *)
BulkRegisterCommit(s) ==
    /\ pc[s] = "br_loop"
    /\ Len(results[s]) = Len(AsinList(req[s].items))
    /\ Commit
    /\ Finish(s, [kind |-> "ok", count |-> Len(results[s]),
                  items |-> results[s]], products[s], results[s])
    /\ UNCHANGED <<workers, overlapped, req, pre>>

(* delete_product, lines 422-424: the existence test. *)
DeleteCheck(s, user, asin) ==
    /\ Start(s, [op |-> "delete_product", user_id |-> user, asin |-> asin])
    /\ UNCHANGED <<rows, committed, aborted>>
    /\ IF aborted
       THEN Finish(s, Http500("InFailedSqlTransaction"), NoProducts, <<>>)
       ELSE IF CountPair(rows, user, asin) = 0
       THEN Finish(s, [kind |-> "not_found", status |-> 404],
                   NoProducts, <<>>)
       ELSE /\ pc' = [pc EXCEPT ![s] = "del_exec"]
            /\ products' = [products EXCEPT ![s] = NoProducts]
            /\ results' = [results EXCEPT ![s] = <<>>]
            /\ resp' = [resp EXCEPT ![s] = NoResp]

(* delete_product, lines 425-427: DELETE, commit, message. *)
DeleteExec(s) ==
    /\ pc[s] = "del_exec"
    /\ IF aborted
       THEN /\ Finish(s, Http500("InFailedSqlTransaction"), NoProducts, <<>>)
            /\ UNCHANGED <<rows, committed, aborted>>
       ELSE /\ rows' = DeleteRows(rows, req[s].user_id, req[s].asin)
            /\ committed' = rows'
            /\ aborted' = FALSE
            /\ Finish(s, [kind |-> "deleted", asin |-> req[s].asin],
                      NoProducts, <<>>)
    /\ UNCHANGED <<workers, overlapped, req, pre>>

(* get_products: the user's rows without the user_id column. *)
GetProducts(s, user) ==
    /\ Start(s, [op |-> "get_products", user_id |-> user])
    /\ UNCHANGED <<rows, committed, aborted>>
    /\ IF aborted
       THEN Finish(s, Http500("InFailedSqlTransaction"), NoProducts, <<>>)
       ELSE LET ur == UserRows(rows, user)
                Item(r) == [asin |-> r.asin, title |-> r.title,
                            current_price |-> r.price, url |-> r.url,
                            target_price |-> r.target_price]
            IN Finish(s, [kind |-> "products",
                          items |-> [i \in {Item(r) : r \in DOMAIN ur} |->
                                       ur[CHOOSE r \in DOMAIN ur : Item(r) = i]]],
                      NoProducts, <<>>)

PriceReachedStrict(current_price, target_price) == current_price < target_price

(* check_prices, line 447 *)
PriceReached(current_price, target_price) == current_price <= target_price

(* check_prices, lines 441-456: the notifications of one scan.  `pick`   *)
(* is asin_to_target: per ASIN the row that came last in the SELECT.     *)
Notifications(ur, prods, pick) ==
    LET hit == {a \in DOMAIN pick :
                  /\ prods.has_data
                  /\ a \in DOMAIN prods.data
                  /\ prods.data[a].offers /= <<>>
                  /\ PriceReached(prods.data[a].offers[1],
                                  pick[a].target_price)}
        Note(a) == [asin |-> a, title |-> pick[a].title,
                    current_price |-> prods.data[a].offers[1],
                    target_price |-> pick[a].target_price,
                    url |-> pick[a].url]
    IN [n \in {Note(a) : a \in hit} |->
          BagCardinality([r \in {x \in DOMAIN ur : x.asin = n.asin} |-> ur[r]])]

UserAsins(b, user) == {r.asin : r \in DOMAIN UserRows(b, user)}

(* The possible asin_to_target maps: one row of the user per ASIN. *)
RECURSIVE Picks(_, _)
Picks(ur, asins) ==
    IF asins = {} THEN {[a \in {} |-> Absent]}
    ELSE LET a == CHOOSE x \in asins : TRUE IN
         {f @@ (a :> r) : f \in Picks(ur, asins \ {a}),
                          r \in {x \in DOMAIN ur : x.asin = a}}

(* check_prices without its (absent) writes: request, gateway, response. *)
CheckPricesScan(s, user, gw) ==
    /\ Start(s, [op |-> "check_prices", user_id |-> user])
    /\ IF aborted
       THEN Finish(s, Http500("InFailedSqlTransaction"), NoProducts, <<>>)
       ELSE LET ur == UserRows(rows, user) IN
            IF DOMAIN ur = {}
            THEN Finish(s, [kind |-> "notifications",
                            notifications |-> EmptyBag], NoProducts, <<>>)
            ELSE \E pick \in Picks(ur, UserAsins(rows, user)) :
                   /\ Finish(s, [kind |-> "notifications",
                                 notifications |-> Notifications(ur, gw, pick)],
                             gw, <<>>)

CheckPricesRefresh(s, user, gw) ==
    /\ CheckPricesScan(s, user, gw)
    /\ rows' = [r \in {[x EXCEPT !.price =
                          IF /\ x.user_id = user
                             /\ gw.has_data
                             /\ x.asin \in DOMAIN gw.data
                             /\ gw.data[x.asin].offers /= <<>>
                          THEN IntAmount(gw.data[x.asin].offers[1])
                          ELSE x.price] : x \in DOMAIN rows} |-> 1]
    /\ committed' = rows'
    /\ UNCHANGED aborted

(* check_prices, lines 431-458: reads only, no commit. *)
CheckPrices(s, user, gw) ==
    /\ CheckPricesScan(s, user, gw)
    /\ UNCHANGED <<rows, committed, aborted>>

(* The response leaves the worker, which forgets the request's locals. *)
Return(s) ==
    /\ pc[s] = "done"
    /\ pc' = [pc EXCEPT ![s] = "idle"]
    /\ req' = [req EXCEPT ![s] = NoReq]
    /\ products' = [products EXCEPT ![s] = NoProducts]
    /\ results' = [results EXCEPT ![s] = <<>>]
    /\ resp' = [resp EXCEPT ![s] = NoResp]
    /\ pre' = [pre EXCEPT ![s] = EmptyBag]
    /\ UNCHANGED <<rows, committed, aborted, workers, overlapped>>

ItemLists == UNION {[1..n -> RegisterItem] : n \in 0..MaxItems}

InsertOutcomes == {"ok", "client_error", "server_error"}

Next ==
    \/ \E s \in Slots : Idle(s) /\
         \E user \in Users, items \in ItemLists :
           \E gw \in GatewayResponses(SeqRange(AsinList(items))) :
             BulkRegisterStart(s, user, items, gw)
    \/ \E s \in Slots : BulkRegisterItem(s)
    \/ \E s \in Slots : pc[s] = "br_insert" /\
         \E outcome \in InsertOutcomes : BulkRegisterInsert(s, outcome)
    \/ \E s \in Slots : BulkRegisterCommit(s)
    \/ \E s \in Slots : Idle(s) /\
         \E user \in Users, asin \in ActiveAsins : DeleteCheck(s, user, asin)
    \/ \E s \in Slots : DeleteExec(s)
    \/ \E s \in Slots : Idle(s) /\ \E user \in Users : GetProducts(s, user)
    \/ \E s \in Slots : Idle(s) /\
         \E user \in Users :
           \E gw \in GatewayResponses(UserAsins(rows, user)) :
             CheckPrices(s, user, gw)
    \/ \E s \in Slots : Return(s)

(* The inputs of the interleaved runs: one user, single-item requests, *)
(* and a gateway that answers for all of the ASINs or for none.         *)
RaceItemLists == {<<i>> : i \in {x \in RegisterItem : x.url.path = "dp"}}

RaceGateway(asins) ==
    {NoProducts,
     [has_data |-> TRUE,
      data |-> [a \in asins |-> [title |-> "t1", offers |-> <<1>>]]]}

NextRace ==
    \/ \E s \in Slots : Idle(s) /\
         \E items \in RaceItemLists :
           \E gw \in RaceGateway(SeqRange(AsinList(items))) :
             BulkRegisterStart(s, "u1", items, gw)
    \/ \E s \in Slots : BulkRegisterItem(s)
    \/ \E s \in Slots : pc[s] = "br_insert" /\
         \E outcome \in InsertOutcomes : BulkRegisterInsert(s, outcome)
    \/ \E s \in Slots : BulkRegisterCommit(s)
    \/ \E s \in Slots : Idle(s) /\
         \E asin \in ActiveAsins : DeleteCheck(s, "u1", asin)
    \/ \E s \in Slots : DeleteExec(s)
    \/ \E s \in Slots : Idle(s) /\ GetProducts(s, "u1")
    \/ \E s \in Slots : Idle(s) /\
         \E gw \in RaceGateway(UserAsins(rows, "u1")) :
           CheckPrices(s, "u1", gw)
    \/ \E s \in Slots : Return(s)

Spec == Init /\ [][Next]_vars

SpecRace == InitRace /\ [][NextRace]_vars

(***************************************************************************)
(* The claims.  Requests run one at a time under Spec and interleave under *)
(* SpecRace.  pre[s] is the table as worker s found it at its request.     *)
(***************************************************************************)

IsBulk(s) == req[s].op = "bulk_register"
DoneWith(s, op) == pc[s] = "done" /\ req[s].op = op

(* C1: with requests run one at a time, in every state - the states      *)
(* inside a bulk_register included - every user holds at most 10 rows.   *)
C1_QuotaInvariant ==
    \A u \in Users : CountUser(rows, u) <= Quota /\ CountUser(committed, u) <= Quota

C1_Witness ==
    \E s \in Slots :
      /\ IsBulk(s) /\ pc[s] = "br_loop"
      /\ Len(results[s]) = 1 /\ results[s][1].kind = "inserted"
      /\ CountUser(rows, req[s].user_id) = Quota

(* C2: a bulk_register whose raw item count would take the user above 10 *)
(* ends with the quota error, no insert and the store as it was; one     *)
(* whose raw item count fits is not rejected by the quota check.         *)
C2_QuotaRejection ==
    \A s \in Slots :
      (IsBulk(s) /\ pc[s] /= "idle") =>
        LET c == CountUser(pre[s], req[s].user_id)
            k == Len(req[s].items)
        IN /\ (c + k > Quota) =>
                /\ pc[s] = "done"
                /\ resp[s] = [kind |-> "quota_error", current |-> c]
                /\ results[s] = <<>>
                /\ rows = pre[s]
                /\ committed = pre[s]
           /\ (c + k <= Quota) => resp[s].kind /= "quota_error"

C2_Witness ==
    \E s \in Slots :
      /\ DoneWith(s, "bulk_register")
      /\ resp[s].kind = "quota_error"
      /\ CountUser(pre[s], req[s].user_id) + Len(req[s].items) = Quota + 1
      /\ CountUser(pre[s], req[s].user_id) + Len(AsinList(req[s].items)) = Quota
      /\ rows = pre[s]

(* C3: with requests run one at a time the table holds at most one row   *)
(* per (user_id, asin), also when a request names an ASIN twice, and a   *)
(* bulk_register keeps every row it found as it was.                     *)
C3_UniquePairs ==
    /\ \A u \in Users, a \in Asins : CountPair(rows, u, a) <= 1
    /\ \A s \in Slots :
         (IsBulk(s) /\ pc[s] /= "idle") =>
           \A r \in DOMAIN pre[s] : r \in DOMAIN rows /\ rows[r] = pre[s][r]

C3_Witness ==
    \E s \in Slots :
      /\ DoneWith(s, "bulk_register")
      /\ resp[s].kind = "ok"
      /\ Len(req[s].items) = 2
      /\ Len(results[s]) = 1
      /\ results[s][1].kind = "inserted"
      /\ CountPair(rows, req[s].user_id, results[s][1].asin) = 1

ResultOf(s, a) ==
    LET i == CHOOSE j \in 1..Len(results[s]) : results[s][j].asin = a
    IN results[s][i]

ReRegistered(s, a) ==
    /\ DoneWith(s, "bulk_register")
    /\ a \in SeqRange(AsinList(req[s].items))
    /\ CountPair(pre[s], req[s].user_id, a) = 1

ReportedSkipped(s, a) ==
    /\ resp[s].kind = "ok"
    /\ \E j \in 1..Len(results[s]) : results[s][j].asin = a
    /\ ResultOf(s, a).kind = "skipped"

ReachesExistsTest(s, a) ==
    /\ CountUser(pre[s], req[s].user_id) + Len(req[s].items) <= Quota
    /\ products[s].has_data
    /\ a \in DOMAIN products[s].data
    /\ products[s].data[a].offers /= <<>>
    /\ \A j \in 1..Len(results[s]) :
         (results[s][j].kind = "error" /\ results[s][j].error = "DataError")
           => \E i \in 1..j : results[s][i].asin = a

C5_Delete ==
    \A s \in Slots :
      DoneWith(s, "delete_product") =>
        LET u == req[s].user_id
            a == req[s].asin
        IN IF CountPair(pre[s], u, a) = 0
           THEN /\ resp[s] = [kind |-> "not_found", status |-> 404]
                /\ rows = pre[s]
                /\ committed = pre[s]
           ELSE /\ resp[s].kind = "deleted"
                /\ DOMAIN rows \subseteq DOMAIN pre[s]
                /\ \A r \in DOMAIN pre[s] :
                     IF r.user_id = u /\ r.asin = a
                     THEN r \notin DOMAIN rows
                     ELSE r \in DOMAIN rows /\ rows[r] = pre[s][r]
                /\ committed = rows

C5_Witness ==
    \E s \in Slots :
      /\ DoneWith(s, "delete_product")
      /\ resp[s].kind = "deleted"
      /\ CountUser(pre[s], req[s].user_id) = CountUser(rows, req[s].user_id) + 1
      /\ CountUser(rows, req[s].user_id) >= 1
      /\ \E u \in Users \ {req[s].user_id} : CountUser(rows, u) >= 1

LivePriceReached(prods, r) ==
    /\ prods.has_data
    /\ r.asin \in DOMAIN prods.data
    /\ prods.data[r.asin].offers /= <<>>
    /\ prods.data[r.asin].offers[1] <= r.target_price

(* C6: check_prices notifies for a row of the user exactly when the     *)
(* gateway has an entry for it whose live price is at most the stored   *)
(* target; rows without an entry are skipped and the scan goes on; a    *)
(* user without rows gets an empty list.                                *)
C6_Notifications ==
    \A s \in Slots :
      DoneWith(s, "check_prices") =>
        LET ur == UserRows(pre[s], req[s].user_id) IN
        /\ resp[s].kind = "notifications"
        /\ \A r \in DOMAIN ur :
             (\E n \in DOMAIN resp[s].notifications : n.asin = r.asin)
               <=> LivePriceReached(products[s], r)
        /\ \A n \in DOMAIN resp[s].notifications :
             \E r \in DOMAIN ur :
               /\ r.asin = n.asin /\ r.title = n.title /\ r.url = n.url
               /\ r.target_price = n.target_price
               /\ n.current_price = products[s].data[r.asin].offers[1]
        /\ (DOMAIN ur = {}) => resp[s].notifications = EmptyBag

C6_Witness ==
    \E s \in Slots :
      /\ DoneWith(s, "check_prices")
      /\ resp[s].kind = "notifications"
      /\ \E r \in DOMAIN UserRows(rows, req[s].user_id) :
           r.asin \notin DOMAIN products[s].data
      /\ \E n \in DOMAIN resp[s].notifications :
           n.current_price = n.target_price

(* C7: in check_prices for a user with at least one row, a gateway      *)
(* answer without any data container is reported as a gateway error,    *)
(* not as a successful empty notification list.                         *)
C7_GatewayError ==
    \A s \in Slots :
      (/\ DoneWith(s, "check_prices")
       /\ DOMAIN UserRows(pre[s], req[s].user_id) /= {}
       /\ ~products[s].has_data)
        => resp[s].kind \in {"gateway_error", "http500"}

(* C8: in bulk_register a failure on one identifier is reported for     *)
(* that identifier only: the summary has one entry per de-duplicated    *)
(* identifier, in order, and every row reported as inserted is stored   *)
(* after the request's commit.                                          *)
C8_BestEffort ==
    \A s \in Slots :
      (DoneWith(s, "bulk_register") /\ resp[s].kind = "ok") =>
        LET al == AsinList(req[s].items) IN
        /\ Len(resp[s].items) = Len(al)
        /\ resp[s].count = Len(al)
        /\ \A i \in 1..Len(al) :
             /\ resp[s].items[i].asin = al[i]
             /\ resp[s].items[i].kind \in {"inserted", "skipped", "error"}
             /\ resp[s].items[i].kind = "inserted" =>
                  /\ CountPair(rows, req[s].user_id, al[i]) = 1
                  /\ CountPair(committed, req[s].user_id, al[i]) = 1

OverQuota == \E u \in Users : CountUser(rows, u) > Quota
DuplicatePair == \E u \in Users, a \in Asins : CountPair(rows, u, a) > 1

(* C9: a user above 10 rows, or a (user_id, asin) pair stored twice,    *)
(* comes about only when two requests have interleaved - and with two   *)
(* interleaved bulk_register requests it does come about.               *)
C9_OnlyWhenInterleaved == (OverQuota \/ DuplicatePair) => overlapped

C9_Witness ==
    /\ CountUser(committed, "u1") > Quota
    /\ \E a \in Asins : CountPair(committed, "u1", a) > 1
    /\ \A s \in Slots : DoneWith(s, "bulk_register") /\ resp[s].kind = "ok"

(* C10: no step changes a field of a stored row, and a check_prices     *)
(* step leaves the whole store as it was, whatever the gateway reports. *)
C10_RowsFrozen ==
    [][ /\ \A r \in DOMAIN rows' :
             (\E q \in DOMAIN rows :
                q.user_id = r.user_id /\ q.asin = r.asin)
               => (r \in DOMAIN rows /\ rows'[r] = rows[r])
        /\ (\E s \in Slots : pc[s] = "idle" /\ req'[s].op = "check_prices")
             => (rows' = rows /\ committed' = committed) ]_vars

C10_Witness ==
    \E s \in Slots :
      /\ DoneWith(s, "check_prices")
      /\ rows = pre[s]
      /\ \E n \in DOMAIN resp[s].notifications :
           \E r \in DOMAIN UserRows(rows, req[s].user_id) :
             r.asin = n.asin /\ r.price /= n.current_price

====
